---- MODULE Spec2Model ----
(***************************************************************************)
(* The attribute-resolution engine of core/policyengine/engine/           *)
(* fieldmapper.go: the registry Mapper, its enumeration Fields, the        *)
(* dispatch API Map / MapInt / MapStr and the extractor factories.         *)
(*                                                                         *)
(* Strings are sequences of one-character strings.  int64 is scaled to     *)
(* IntBits bits (two's complement), so that wrap-around and the range      *)
(* errors of strconv.ParseInt are reachable.                               *)
(***************************************************************************)
EXTENDS Integers, Sequences, FiniteSets, TLC

VARIABLES Mappers, Fields, inited, rec, cache, wk

vars == <<Mappers, Fields, inited, rec, cache, wk>>

(***************************************************************************)
(* Bounds                                                                  *)
(***************************************************************************)
IntBits == 4

MaxNameLen == 3

MaxStrLen == 2

MaxPathLen == 8

MaxKeys == 4

NumWorkers == 2

MaxAttrs == 3

(***************************************************************************)
(* Integers of the width of int64 (scaled)                                 *)
(***************************************************************************)
MinInt == -(2 ^ (IntBits - 1))

MaxInt == (2 ^ (IntBits - 1)) - 1

MaxUint == (2 ^ IntBits) - 1

Wrap(x) == ((x - MinInt) % (2 ^ IntBits)) + MinInt

Abs(x) == IF x < 0 THEN -x ELSE x

(***************************************************************************)
(* Characters and strings                                                  *)
(***************************************************************************)
AsciiOrder ==
  << " ", "\"", "'", "+", ",", "-", ".", "/",
     "0", "1", "2", "3", "4", "5", "6", "7", "8", "9", ">", "_",
     "a", "b", "c", "d", "e", "f", "g", "h", "i", "j", "k", "l", "m",
     "n", "o", "p", "q", "r", "s", "t", "u", "v", "w", "x", "y", "z" >>

Ord(c) == CHOOSE i \in 1..Len(AsciiOrder) : AsciiOrder[i] = c

DecimalDigits == <<"0", "1", "2", "3", "4", "5", "6", "7", "8", "9">>

HexDigits == <<"0", "1", "2", "3", "4", "5", "6", "7", "8", "9",
               "a", "b", "c", "d", "e", "f">>

IsHex(c) == \E i \in 1..16 : HexDigits[i] = c

DigitVal(c) == (CHOOSE i \in 1..16 : HexDigits[i] = c) - 1

IsSpace(c) == c = " "

StringsUpTo(alphabet, n) == UNION {[1..k -> alphabet] : k \in 0..n}

Drop(s, n) == SubSeq(s, n + 1, Len(s))

Take(s, n) == SubSeq(s, 1, n)

\* strings.Compare(a, b) < 0
RECURSIVE StrLess(_, _)
StrLess(a, b) ==
  IF b = <<>> THEN FALSE
  ELSE IF a = <<>> THEN TRUE
  ELSE IF a[1] = b[1] THEN StrLess(Tail(a), Tail(b))
  ELSE Ord(a[1]) < Ord(b[1])

\* len(strings.Split(s, "."))
RECURSIVE SplitCount(_)
SplitCount(s) ==
  IF s = <<>> THEN 1
  ELSE (IF s[1] = "." THEN 1 ELSE 0) + SplitCount(Tail(s))

\* strings.Join(parts, sep)
RECURSIVE Join(_, _)
Join(parts, sep) ==
  IF parts = <<>> THEN <<>>
  ELSE IF Len(parts) = 1 THEN parts[1]
  ELSE parts[1] \o sep \o Join(Tail(parts), sep)

(***************************************************************************)
(* strconv                                                                 *)
(***************************************************************************)
\* strconv.FormatUint(n, 10) for n >= 0
RECURSIVE FormatUint(_)
FormatUint(n) ==
  IF n < 10 THEN <<DecimalDigits[n + 1]>>
  ELSE FormatUint(n \div 10) \o <<DecimalDigits[(n % 10) + 1]>>

\* strconv.FormatInt(v, 10)
FormatInt(v) == IF v < 0 THEN <<"-">> \o FormatUint(-v) ELSE FormatUint(v)

\* strconv.FormatBool(b)
FormatBool(b) ==
  IF b THEN <<"t", "r", "u", "e">> ELSE <<"f", "a", "l", "s", "e">>

\* The digit loop of strconv.ParseUint(s, base, 64): n is the value so far.
RECURSIVE ParseUintLoop(_, _, _)
ParseUintLoop(s, base, n) ==
  IF s = <<>> THEN [err |-> "nil", n |-> n]
  ELSE IF ~IsHex(s[1]) \/ DigitVal(s[1]) >= base
         THEN [err |-> "syntax", n |-> 0]
  ELSE IF n * base + DigitVal(s[1]) > MaxUint
         THEN [err |-> "range", n |-> MaxUint]
  ELSE ParseUintLoop(Tail(s), base, n * base + DigitVal(s[1]))

\* strconv.ParseUint(s, base, 64)
ParseUint(s, base) ==
  IF s = <<>> THEN [err |-> "syntax", n |-> 0]
  ELSE ParseUintLoop(s, base, 0)

\* strconv.ParseInt(s, 10, 64)
ParseInt(s) ==
  IF s = <<>> THEN [err |-> "syntax", n |-> 0]
  ELSE LET neg  == s[1] = "-"
           body == IF s[1] = "+" \/ s[1] = "-" THEN Tail(s) ELSE s
           un   == ParseUint(body, 10)
       IN  IF un.err = "syntax" THEN [err |-> "syntax", n |-> 0]
           ELSE IF ~neg /\ (un.err = "range" \/ un.n > MaxInt)
                  THEN [err |-> "range", n |-> MaxInt]
           ELSE IF neg /\ (un.err = "range" \/ un.n > -MinInt)
                  THEN [err |-> "range", n |-> MinInt]
           ELSE [err |-> "nil", n |-> IF neg THEN -un.n ELSE un.n]

(***************************************************************************)
(* path/filepath (Unix)                                                    *)
(***************************************************************************)
\* Index of the last "/" of s among its first i characters, 0 if none.
RECURSIVE LastSlash(_, _)
LastSlash(s, i) ==
  IF i = 0 THEN 0
  ELSE IF s[i] = "/" THEN i
  ELSE LastSlash(s, i - 1)

RECURSIVE StripTrailingSlashes(_)
StripTrailingSlashes(s) ==
  IF s # <<>> /\ s[Len(s)] = "/" THEN StripTrailingSlashes(Take(s, Len(s) - 1))
  ELSE s

\* The backtracking of a ".." element in filepath.Clean: the write index
\* after dropping the last element of out.
RECURSIVE CleanBacktrack(_, _, _)
CleanBacktrack(out, w, dotdot) ==
  IF w > dotdot /\ out[w + 1] # "/" THEN CleanBacktrack(out, w - 1, dotdot)
  ELSE w

\* End (exclusive, 1-based) of the path element that starts at r.
RECURSIVE ElementEnd(_, _)
ElementEnd(path, r) ==
  IF r <= Len(path) /\ path[r] # "/" THEN ElementEnd(path, r + 1) ELSE r

\* The loop of filepath.Clean; r is the (1-based) read index.
RECURSIVE CleanLoop(_, _, _, _, _)
CleanLoop(path, r, out, dotdot, rooted) ==
  LET n == Len(path) IN
  IF r > n THEN (IF out = <<>> THEN <<".">> ELSE out)
  ELSE IF path[r] = "/" THEN CleanLoop(path, r + 1, out, dotdot, rooted)
  ELSE IF path[r] = "." /\ (r = n \/ path[r + 1] = "/")
         THEN CleanLoop(path, r + 1, out, dotdot, rooted)
  ELSE IF path[r] = "." /\ path[r + 1] = "." /\ (r + 1 = n \/ path[r + 2] = "/")
         THEN IF Len(out) > dotdot
                THEN CleanLoop(path, r + 2,
                               Take(out, CleanBacktrack(out, Len(out) - 1, dotdot)),
                               dotdot, rooted)
              ELSE IF ~rooted
                THEN LET o == (IF out # <<>> THEN out \o <<"/">> ELSE out)
                                 \o <<".", ".">>
                     IN  CleanLoop(path, r + 2, o, Len(o), rooted)
              ELSE CleanLoop(path, r + 2, out, dotdot, rooted)
  ELSE LET sep == IF (rooted /\ Len(out) # 1) \/ (~rooted /\ Len(out) # 0)
                    THEN <<"/">> ELSE <<>>
           e   == ElementEnd(path, r)
       IN  CleanLoop(path, e, out \o sep \o SubSeq(path, r, e - 1), dotdot, rooted)

\* filepath.Clean(path)
Clean(path) ==
  IF path = <<>> THEN <<".">>
  ELSE IF path[1] = "/" THEN CleanLoop(path, 2, <<"/">>, 1, TRUE)
  ELSE CleanLoop(path, 1, <<>>, 0, FALSE)

\* filepath.Base(path)
Base(path) ==
  IF path = <<>> THEN <<".">>
  ELSE LET p == StripTrailingSlashes(path)
           e == Drop(p, LastSlash(p, Len(p)))
       IN  IF e = <<>> THEN <<"/">> ELSE e

\* filepath.Dir(path)
Dir(path) == Clean(Take(path, LastSlash(path, Len(path))))

(***************************************************************************)
(* fmt.Sscanf(orig, "%x->%x %s", &src, &dst, &targetPath)                  *)
(***************************************************************************)
\* Significant hexadecimal digits a uint64 holds.
Uint64HexDigits == 16

RECURSIVE SkipSpace(_)
SkipSpace(s) == IF s # <<>> /\ IsSpace(s[1]) THEN SkipSpace(Tail(s)) ELSE s

RECURSIVE HexRun(_)
HexRun(s) == IF s # <<>> /\ IsHex(s[1]) THEN 1 + HexRun(Tail(s)) ELSE 0

RECURSIVE SkipZeros(_)
SkipZeros(s) == IF s # <<>> /\ s[1] = "0" THEN SkipZeros(Tail(s)) ELSE s

RECURSIVE WordLen(_)
WordLen(s) == IF s # <<>> /\ ~IsSpace(s[1]) THEN 1 + WordLen(Tail(s)) ELSE 0

\* The verb %x into a *uint64: blanks are skipped, at least one hexadecimal
\* digit is needed, and the number must fit 64 bits.
ScanHex(s) ==
  LET t == SkipSpace(s)
      n == HexRun(t)
  IN  IF n = 0 \/ Len(SkipZeros(Take(t, n))) > Uint64HexDigits
        THEN [ok |-> FALSE, rest |-> t]
        ELSE [ok |-> TRUE, rest |-> Drop(t, n)]

\* A literal character of the format must be the next input character.
ScanLiteral(s, c) ==
  IF s # <<>> /\ s[1] = c THEN [ok |-> TRUE, rest |-> Tail(s)]
  ELSE [ok |-> FALSE, rest |-> s]

\* A blank of the format: at least one blank, or the end of the input.
ScanBlank(s) ==
  IF s # <<>> /\ ~IsSpace(s[1]) THEN [ok |-> FALSE, rest |-> s]
  ELSE [ok |-> TRUE, rest |-> SkipSpace(s)]

\* The verb %s: blanks are skipped and the next blank-delimited word is read.
ScanWord(s) ==
  LET t == SkipSpace(s)
      n == WordLen(t)
  IN  IF n = 0 THEN [ok |-> FALSE, word |-> <<>>, rest |-> t]
      ELSE [ok |-> TRUE, word |-> Take(t, n), rest |-> Drop(t, n)]

\* err == nil and the value of targetPath.
Sscanf(orig) ==
  LET h1 == ScanHex(orig)
      l1 == ScanLiteral(h1.rest, "-")
      l2 == ScanLiteral(l1.rest, ">")
      h2 == ScanHex(l2.rest)
      b  == ScanBlank(h2.rest)
      w  == ScanWord(b.rest)
  IN  IF h1.ok /\ l1.ok /\ l2.ok /\ h2.ok /\ b.ok /\ w.ok
        THEN [ok |-> TRUE, targetPath |-> w.word]
        ELSE [ok |-> FALSE, targetPath |-> <<>>]

(***************************************************************************)
(* Values (interface{}) and records                                        *)
(***************************************************************************)
StrVal(s) == [k |-> "string", s |-> s, i |-> 0, b |-> FALSE]

IntVal(i) == [k |-> "int64", s |-> <<>>, i |-> i, b |-> FALSE]

BoolVal(b) == [k |-> "bool", s |-> <<>>, i |-> 0, b |-> b]

\* sfgo.Zeros
ZerosInt64 == IntVal(0)

ZerosString == StrVal(<<>>)

SPACE == <<" ">>

LISTSEP == <<",">>

\* A record holds the fields the ingestion layer filled in, per source; a
\* field it did not fill in is absent.
GetInt(r, attr, src) ==
  IF <<src, attr>> \in DOMAIN r.ints THEN r.ints[<<src, attr>>] ELSE 0

GetStr(r, attr, src) ==
  IF <<src, attr>> \in DOMAIN r.strs THEN r.strs[<<src, attr>>] ELSE <<>>

\* The lineage cache: object id -> cached attribute -> value; an object id
\* it does not hold yields the zero value of the attribute's type.
CachedZero(attr) == IF attr = "ProcAPID" THEN ZerosInt64 ELSE ZerosString

GetCachedValue(c, oid, attr) ==
  IF oid \in DOMAIN c THEN c[oid][attr] ELSE CachedZero(attr)

\* sfgo record types
HEADER == 0

CONT == 1

PROC == 2

FILE == 3

PROC_EVT == 4

NET_FLOW == 5

FILE_FLOW == 6

FILE_EVT == 7

(***************************************************************************)
(* Extractor factories.  A FieldMap closure is the record of the factory   *)
(* that made it and the parameters it captured; Xxx(...) is the factory    *)
(* and XxxFn(fm, r) the body of its closure.                               *)
(***************************************************************************)
Closure(f, src, attrs) == [f |-> f, src |-> src, attrs |-> attrs, lit |-> <<>>]

mapStr(src, attr) == Closure("mapStr", src, <<attr>>)

mapStrFn(fm, r) == StrVal(GetStr(r, fm.attrs[1], fm.src))

mapInt(src, attr) == Closure("mapInt", src, <<attr>>)

mapIntFn(fm, r) == IntVal(GetInt(r, fm.attrs[1], fm.src))

mapSum(src, attrs) == Closure("mapSum", src, attrs)

RECURSIVE SumLoop(_, _, _, _)
SumLoop(r, src, attrs, sum) ==
  IF attrs = <<>> THEN sum
  ELSE SumLoop(r, src, Tail(attrs), Wrap(sum + GetInt(r, attrs[1], src)))

\* The sum clamped to the integer range instead of wrapping.
mapSumFnSaturating(fm, r) ==
  LET s == GetInt(r, fm.attrs[1], fm.src)
           + (IF Len(fm.attrs) > 1 THEN SumLoop(r, fm.src, Tail(fm.attrs), 0) ELSE 0)
  IN  IntVal(IF s > MaxInt THEN MaxInt ELSE IF s < MinInt THEN MinInt ELSE s)

mapSumFn(fm, r) == IntVal(SumLoop(r, fm.src, fm.attrs, 0))

mapJoin(src, attrs) == Closure("mapJoin", src, attrs)

RECURSIVE JoinLoop(_, _, _, _)
JoinLoop(r, src, attrs, join) ==
  IF attrs = <<>> THEN join
  ELSE JoinLoop(r, src, Tail(attrs), join \o SPACE \o GetStr(r, attrs[1], src))

\* The join leaving out the separator of an empty operand.
RECURSIVE JoinSkipEmpty(_, _, _, _)
JoinSkipEmpty(r, src, attrs, join) ==
  IF attrs = <<>> THEN join
  ELSE LET s == GetStr(r, attrs[1], src)
       IN  JoinSkipEmpty(r, src, Tail(attrs),
                         IF s = <<>> THEN join ELSE join \o SPACE \o s)

mapJoinFnSkipEmpty(fm, r) ==
  StrVal(JoinSkipEmpty(r, fm.src, Tail(fm.attrs), GetStr(r, fm.attrs[1], fm.src)))

mapJoinFn(fm, r) ==
  StrVal(JoinLoop(r, fm.src, Tail(fm.attrs), GetStr(r, fm.attrs[1], fm.src)))

mapRet(src) == Closure("mapRet", src, <<>>)

\* The switch without its fallthrough: a process event yields nothing of
\* the field.
mapRetFnNoFallthrough(fm, r) ==
  LET t == GetInt(r, "SF_REC_TYPE", fm.src)
  IN  IF t = FILE_EVT
        THEN IntVal(GetInt(r, "RET_INT", fm.src))
        ELSE ZerosInt64

mapRetFn(fm, r) ==
  LET t == GetInt(r, "SF_REC_TYPE", fm.src)
  IN  IF t = PROC_EVT \/ t = FILE_EVT
        THEN IntVal(GetInt(r, "RET_INT", fm.src))
        ELSE ZerosInt64

mapEndTs(src) == Closure("mapEndTs", src, <<>>)

mapEndTsFn(fm, r) ==
  LET t == GetInt(r, "SF_REC_TYPE", fm.src)
  IN  IF t = FILE_FLOW THEN IntVal(GetInt(r, "FL_FILE_ENDTS_INT", fm.src))
      ELSE IF t = NET_FLOW THEN IntVal(GetInt(r, "FL_NETW_ENDTS_INT", fm.src))
      ELSE ZerosInt64

mapEntry(src, attr) == Closure("mapEntry", src, <<attr>>)

mapEntryFn(fm, r) == BoolVal(GetInt(r, fm.attrs[1], fm.src) = 1)

mapName(src, attr) == Closure("mapName", src, <<attr>>)

mapNameFn(fm, r) == StrVal(Base(GetStr(r, fm.attrs[1], fm.src)))

mapDir(src, attr) == Closure("mapDir", src, <<attr>>)

mapDirFn(fm, r) == StrVal(Dir(GetStr(r, fm.attrs[1], fm.src)))

mapLinkPath(src, attr) == Closure("mapLinkPath", src, <<attr>>)

mapLinkPathFn(fm, r) ==
  LET orig == GetStr(r, fm.attrs[1], fm.src)
      scan == Sscanf(orig)
  IN  IF scan.ok THEN StrVal(scan.targetPath) ELSE StrVal(orig)

mapProto(src, attr) == Closure("mapProto", src, <<attr>>)

mapProtoFn(fm, r) == IntVal(GetInt(r, fm.attrs[1], fm.src))

mapPort(src, attrs) == Closure("mapPort", src, attrs)

RECURSIVE PortLoop(_, _, _, _)
PortLoop(r, src, attrs, ports) ==
  IF attrs = <<>> THEN ports
  ELSE PortLoop(r, src, Tail(attrs),
                Append(ports, FormatInt(GetInt(r, attrs[1], src))))

\* The ports with the unset (zero) ones left out.
RECURSIVE PortLoopSkipZero(_, _, _, _)
PortLoopSkipZero(r, src, attrs, ports) ==
  IF attrs = <<>> THEN ports
  ELSE PortLoopSkipZero(r, src, Tail(attrs),
                        IF GetInt(r, attrs[1], src) = 0 THEN ports
                        ELSE Append(ports, FormatInt(GetInt(r, attrs[1], src))))

mapPortFnSkipZero(fm, r) ==
  StrVal(Join(PortLoopSkipZero(r, fm.src, fm.attrs, <<>>), LISTSEP))

mapPortFn(fm, r) == StrVal(Join(PortLoop(r, fm.src, fm.attrs, <<>>), LISTSEP))

\* utils.GetIPStr(ip): the four bytes of ip, lowest first, dotted.
GetIPStr(ip) ==
  Join(<< FormatUint(ip % 256), FormatUint((ip \div 256) % 256),
          FormatUint((ip \div 65536) % 256),
          FormatUint((ip \div 16777216) % 256) >>, <<".">>)

mapIP(src, attrs) == Closure("mapIP", src, attrs)

RECURSIVE IPLoop(_, _, _, _)
IPLoop(r, src, attrs, ips) ==
  IF attrs = <<>> THEN ips
  ELSE IPLoop(r, src, Tail(attrs), Append(ips, GetIPStr(GetInt(r, attrs[1], src))))

mapIPFn(fm, r) == StrVal(Join(IPLoop(r, fm.src, fm.attrs, <<>>), LISTSEP))

mapCachedValue(src, attr) == Closure("mapCachedValue", src, <<attr>>)

mapCachedValueFn(fm, r, c) ==
  LET oid == [CreateTS |-> GetInt(r, "PROC_OID_CREATETS_INT", fm.src),
              Hpid     |-> GetInt(r, "PROC_OID_HPID_INT", fm.src)]
  IN  GetCachedValue(c, oid, fm.attrs[1])

\* The digest h.Sum(nil) of the bytes written to the hash: eight bytes.  The
\* mixing of xxhash is abstracted to a positional checksum; only the width
\* of the digest and its being a function of the bytes written are used.
RECURSIVE Checksum(_, _)
Checksum(data, k) ==
  IF data = <<>> THEN 0
  ELSE (Ord(data[1]) * (k + Len(data)) + Checksum(Tail(data), k)) % 256

Sum64(data) == [k \in 1..8 |-> Checksum(data, k)]

\* fmt.Sprintf("%x", bytes): two hexadecimal digits per byte.
RECURSIVE SprintfHex(_)
SprintfHex(bytes) ==
  IF bytes = <<>> THEN <<>>
  ELSE <<HexDigits[(bytes[1] \div 16) + 1], HexDigits[(bytes[1] % 16) + 1]>>
       \o SprintfHex(Tail(bytes))

mapOID(src, attrs) == Closure("mapOID", src, attrs)

RECURSIVE OIDLoop(_, _, _, _)
OIDLoop(r, src, attrs, written) ==
  IF attrs = <<>> THEN written
  ELSE OIDLoop(r, src, Tail(attrs), written \o FormatInt(GetInt(r, attrs[1], src)))

mapOIDFn(fm, r) == StrVal(SprintfHex(Sum64(OIDLoop(r, fm.src, fm.attrs, <<>>))))

mapNa(attr) == [f |-> "mapNa", src |-> "", attrs |-> <<>>, lit |-> attr]

\* The warning it logs is not part of the state.
mapNaFn(fm, r) == ZerosString

\* The closure Map returns for a name the registry does not hold.
Identity(attr) == [f |-> "identity", src |-> "", attrs |-> <<>>, lit |-> attr]

\* fm(r): the invocation of a FieldMap closure on a record.
Invoke(fm, r, c) ==
  CASE fm.f = "identity"       -> StrVal(fm.lit)
    [] fm.f = "mapStr"         -> mapStrFn(fm, r)
    [] fm.f = "mapInt"         -> mapIntFn(fm, r)
    [] fm.f = "mapSum"         -> mapSumFn(fm, r)
    [] fm.f = "mapJoin"        -> mapJoinFn(fm, r)
    [] fm.f = "mapRet"         -> mapRetFn(fm, r)
    [] fm.f = "mapEndTs"       -> mapEndTsFn(fm, r)
    [] fm.f = "mapEntry"       -> mapEntryFn(fm, r)
    [] fm.f = "mapName"        -> mapNameFn(fm, r)
    [] fm.f = "mapDir"         -> mapDirFn(fm, r)
    [] fm.f = "mapLinkPath"    -> mapLinkPathFn(fm, r)
    [] fm.f = "mapProto"       -> mapProtoFn(fm, r)
    [] fm.f = "mapPort"        -> mapPortFn(fm, r)
    [] fm.f = "mapIP"          -> mapIPFn(fm, r)
    [] fm.f = "mapCachedValue" -> mapCachedValueFn(fm, r, c)
    [] fm.f = "mapOID"         -> mapOIDFn(fm, r)
    [] fm.f = "mapNa"          -> mapNaFn(fm, r)

(***************************************************************************)
(* Attribute names, one of each factory of the registry.  K_SF_X is the  *)
(* constant SF_X of the source.                                           *)
(***************************************************************************)
K_SF_RET == <<"r", "e", "t">>

K_SF_TS == <<"t", "s">>

K_SF_ENDTS == <<"e", "n", "d", "t", "s">>

K_SF_PROC_OID == <<"p", "r", "o", "c", ".", "o", "i", "d">>

K_SF_PROC_PID == <<"p", "r", "o", "c", ".", "p", "i", "d">>

K_SF_PROC_NAME == <<"p", "r", "o", "c", ".", "n", "a", "m", "e">>

K_SF_PROC_EXE == <<"p", "r", "o", "c", ".", "e", "x", "e">>

K_SF_PROC_ARGS == <<"p", "r", "o", "c", ".", "a", "r", "g", "s">>

K_SF_PROC_ENTRY == <<"p", "r", "o", "c", ".", "e", "n", "t", "r", "y">>

K_SF_PROC_CMDLINE == <<"p", "r", "o", "c", ".", "c", "m", "d", "l", "i", "n", "e">>

K_SF_PROC_ANAME == <<"p", "r", "o", "c", ".", "a", "n", "a", "m", "e">>

K_SF_PROC_APID == <<"p", "r", "o", "c", ".", "a", "p", "i", "d">>

K_SF_FILE_PATH == <<"f", "i", "l", "e", ".", "p", "a", "t", "h">>

K_SF_FILE_CANONICALPATH == <<"f", "i", "l", "e", ".", "c", "a", "n", "o", "n", "i", "c", "a", "l", "p", "a", "t", "h">>

K_SF_FILE_DIRECTORY == <<"f", "i", "l", "e", ".", "d", "i", "r", "e", "c", "t", "o", "r", "y">>

K_SF_NET_PROTO == <<"n", "e", "t", ".", "p", "r", "o", "t", "o">>

K_SF_NET_PROTONAME == <<"n", "e", "t", ".", "p", "r", "o", "t", "o", "n", "a", "m", "e">>

K_SF_NET_SPORT == <<"n", "e", "t", ".", "s", "p", "o", "r", "t">>

K_SF_NET_PORT == <<"n", "e", "t", ".", "p", "o", "r", "t">>

K_SF_NET_SIP == <<"n", "e", "t", ".", "s", "i", "p">>

K_SF_NET_IP == <<"n", "e", "t", ".", "i", "p">>

K_SF_FLOW_RBYTES == <<"f", "l", "o", "w", ".", "r", "b", "y", "t", "e", "s">>

EXT_PROC_IMAGE_STR == <<"e", "x", "t", ".", "p", "r", "o", "c", ".", "i", "m", "a", "g", "e">>

(***************************************************************************)
(* The registry                                                            *)
(***************************************************************************)
\* The composite literal of var Mapper.
Mapper ==
  (K_SF_RET :> mapRet("SYSFLOW_SRC")) @@
  (K_SF_TS :> mapInt("SYSFLOW_SRC", "TS_INT")) @@
  (K_SF_ENDTS :> mapEndTs("SYSFLOW_SRC")) @@
  (K_SF_PROC_OID :> mapOID("SYSFLOW_SRC", <<"PROC_OID_HPID_INT", "PROC_OID_CREATETS_INT">>)) @@
  (K_SF_PROC_PID :> mapInt("SYSFLOW_SRC", "PROC_OID_HPID_INT")) @@
  (K_SF_PROC_NAME :> mapName("SYSFLOW_SRC", "PROC_EXE_STR")) @@
  (K_SF_PROC_EXE :> mapStr("SYSFLOW_SRC", "PROC_EXE_STR")) @@
  (K_SF_PROC_ARGS :> mapStr("SYSFLOW_SRC", "PROC_EXEARGS_STR")) @@
  (K_SF_PROC_ENTRY :> mapEntry("SYSFLOW_SRC", "PROC_ENTRY_INT")) @@
  (K_SF_PROC_CMDLINE :> mapJoin("SYSFLOW_SRC", <<"PROC_EXE_STR", "PROC_EXEARGS_STR">>)) @@
  (K_SF_PROC_ANAME :> mapCachedValue("SYSFLOW_SRC", "ProcAName")) @@
  (K_SF_PROC_APID :> mapCachedValue("SYSFLOW_SRC", "ProcAPID")) @@
  (K_SF_FILE_PATH :> mapStr("SYSFLOW_SRC", "FILE_PATH_STR")) @@
  (K_SF_FILE_CANONICALPATH :> mapLinkPath("SYSFLOW_SRC", "FILE_PATH_STR")) @@
  (K_SF_FILE_DIRECTORY :> mapDir("SYSFLOW_SRC", "FILE_PATH_STR")) @@
  (K_SF_NET_PROTO :> mapInt("SYSFLOW_SRC", "FL_NETW_PROTO_INT")) @@
  (K_SF_NET_PROTONAME :> mapProto("SYSFLOW_SRC", "FL_NETW_PROTO_INT")) @@
  (K_SF_NET_SPORT :> mapInt("SYSFLOW_SRC", "FL_NETW_SPORT_INT")) @@
  (K_SF_NET_PORT :> mapPort("SYSFLOW_SRC", <<"FL_NETW_SPORT_INT", "FL_NETW_DPORT_INT">>)) @@
  (K_SF_NET_SIP :> mapIP("SYSFLOW_SRC", <<"FL_NETW_SIP_INT">>)) @@
  (K_SF_NET_IP :> mapIP("SYSFLOW_SRC", <<"FL_NETW_SIP_INT", "FL_NETW_DIP_INT">>)) @@
  (K_SF_FLOW_RBYTES :> mapSum("SYSFLOW_SRC", <<"FL_FILE_NUMRRECVBYTES_INT", "FL_NETW_NUMRRECVBYTES_INT">>)) @@
  (EXT_PROC_IMAGE_STR :> mapStr("PROCESS_SRC", "PROC_IMAGE_STR"))

(***************************************************************************)
(* The dispatch API                                                        *)
(***************************************************************************)
IsQuote(c) == c = "\"" \/ c = "'"

\* Map with a miss answered by the placeholder extractor.
MapMissNa(m, attr) == IF attr \in DOMAIN m THEN m[attr] ELSE mapNa(attr)

\* FieldMapper.Map(attr)
Map(m, attr) == IF attr \in DOMAIN m THEN m[attr] ELSE Identity(attr)

\* trimBoundingQuotes removing a pair of quotes only when both ends are the
\* same quote.
trimMatchingQuotes(s) ==
  IF Len(s) > 1 /\ IsQuote(s[1]) /\ s[Len(s)] = s[1]
    THEN SubSeq(s, 2, Len(s) - 1) ELSE s

\* FieldMapper.trimBoundingQuotes(s)
trimBoundingQuotes(s) ==
  LET s1 == IF Len(s) > 0 /\ IsQuote(s[1]) THEN Tail(s) ELSE s
  IN  IF Len(s1) > 0 /\ IsQuote(s1[Len(s1)]) THEN Take(s1, Len(s1) - 1) ELSE s1

\* MapInt without the fallback to the name as a literal.
MapIntFnNoLiteral(m, attr, r, c) ==
  LET v == Invoke(Map(m, attr), r, c)
  IN  IF v.k = "int64" THEN v.i ELSE ZerosInt64.i

\* The closure FieldMapper.MapInt(attr) returns, applied to r.
MapIntFn(m, attr, r, c) ==
  LET v == Invoke(Map(m, attr), r, c)
      p == ParseInt(attr)
  IN  IF v.k = "int64" THEN v.i
      ELSE IF p.err = "nil" THEN p.n
      ELSE ZerosInt64.i

\* The closure FieldMapper.MapStr(attr) returns, applied to r: the
\* extractor is invoked anew for each type assertion.
MapStrFn(m, attr, r, c) ==
  LET v1 == Invoke(Map(m, attr), r, c)
      v2 == Invoke(Map(m, attr), r, c)
      v3 == Invoke(Map(m, attr), r, c)
  IN  IF v1.k = "string" THEN trimBoundingQuotes(v1.s)
      ELSE IF v2.k = "int64" THEN FormatInt(v2.i)
      ELSE IF v3.k = "bool" THEN FormatBool(v3.b)
      ELSE ZerosString.s

(***************************************************************************)
(* getFields and the initialization of the package's variables             *)
(***************************************************************************)
\* less comparing the names alone, whatever their number of segments.
lessLexOnly(a, b) == StrLess(a, b)

\* The less function handed to sort.SliceStable.
less(a, b) ==
  LET ki == SplitCount(a)
      kj == SplitCount(b)
  IN  IF ki = kj THEN StrLess(a, b) ELSE ki < kj

\* Insertion of x into a sorted slice behind every element not greater.
RECURSIVE InsertStable(_, _)
InsertStable(sorted, x) ==
  IF sorted = <<>> THEN <<x>>
  ELSE IF less(x, sorted[Len(sorted)])
         THEN Append(InsertStable(Take(sorted, Len(sorted) - 1), x),
                     sorted[Len(sorted)])
  ELSE Append(sorted, x)

\* sort.SliceStable(keys, less)
RECURSIVE SliceStable(_)
SliceStable(keys) ==
  IF keys = <<>> THEN <<>>
  ELSE InsertStable(SliceStable(Take(keys, Len(keys) - 1)), keys[Len(keys)])

\* The orders in which a range over a map with key set K may yield the keys.
RangeOrders(K) ==
  {o \in [1..Cardinality(K) -> K] : \A i, j \in DOMAIN o : i # j => o[i] # o[j]}

\* getFields(), the range over Mapper.Mappers having yielded the keys in
\* this order.
getFields(order) == SliceStable(order)

\* One order of the keys of K (for a registry too large to range over in
\* every order).
RECURSIVE SomeOrder(_)
SomeOrder(K) ==
  IF K = {} THEN <<>>
  ELSE LET k == CHOOSE x \in K : TRUE IN <<k>> \o SomeOrder(K \ {k})

\* Package-level variables in declaration order, and the variables the
\* initialization expression of each refers to (through functions too).
PkgVars == <<"Fields", "Mapper">>

PkgDeps == [Fields |-> {"Mapper"}, Mapper |-> {}]

\* The next variable to initialize: the earliest in declaration order that
\* is not initialized and depends on no uninitialized variable.
NextToInit(done) ==
  LET ready == {i \in DOMAIN PkgVars :
                  PkgVars[i] \notin done /\ PkgDeps[PkgVars[i]] \subseteq done}
  IN  IF ready = {} THEN "none"
      ELSE PkgVars[CHOOSE i \in ready : \A j \in ready : i <= j]

(***************************************************************************)
(* Inputs                                                                  *)
(***************************************************************************)
EmptyFn == [x \in {} |-> 0]

Rec(ints, strs) == [ints |-> ints, strs |-> strs]

EmptyRecord == Rec(EmptyFn, EmptyFn)

F(attr) == <<"SYSFLOW_SRC", attr>>

\* The functions from a subset of D to V: every field of D absent or set.
PartialFns(D, V) == UNION {[S -> V] : S \in SUBSET D}

IntSamples == {MinInt, -1, 0, 1, MaxInt}

NoCache == EmptyFn

OneOid == [CreateTS |-> 1, Hpid |-> 1]

SomeCache ==
  (OneOid :> [ProcAName |-> StrVal(<<"'", "x", "'">>), ProcAPID |-> IntVal(1)])

\* What the lineage cache may hold: nothing, or a lineage of the one object
\* id; a cached attribute keeps its type, whatever its value.
Caches ==
  {NoCache} \cup
  {(OneOid :> [ProcAName |-> StrVal(s), ProcAPID |-> IntVal(i)]) :
     s \in {<<>>, <<"'", "x", "'">>, <<"x", "\"">>}, i \in {-1, 1, 2}}

\* Names a caller may ask for: the registered ones and every short literal.
NameAlphabet == {"0", "1", "-", "+", "\"", "'", "x"}

RegKeys == DOMAIN Mapper

AttrNames == RegKeys \cup StringsUpTo(NameAlphabet, MaxNameLen)

FullRecord ==
  Rec((F("TS_INT") :> 5) @@ (F("PROC_OID_HPID_INT") :> 1) @@
      (F("PROC_OID_CREATETS_INT") :> 1) @@ (F("PROC_ENTRY_INT") :> 1) @@
      (F("FL_NETW_PROTO_INT") :> 6) @@ (F("FL_NETW_SPORT_INT") :> 1) @@
      (F("FL_NETW_DPORT_INT") :> 2) @@ (F("FL_NETW_SIP_INT") :> 1) @@
      (F("FL_FILE_NUMRRECVBYTES_INT") :> 3) @@ (F("SF_REC_TYPE") :> PROC_EVT) @@
      (F("RET_INT") :> -1),
      (F("PROC_EXE_STR") :> <<"'", "/", "x", "\"">>) @@
      (F("PROC_EXEARGS_STR") :> <<"\"", "-", "1", "\"">>) @@
      (F("FILE_PATH_STR") :> <<"\"", "\"", "/", "a", "'", "'">>) @@
      (<<"PROCESS_SRC", "PROC_IMAGE_STR">> :> <<"x", "'", "x">>))

QuoteRecords ==
  {Rec(EmptyFn, (F("PROC_EXE_STR") :> s)) :
     s \in {<<"\"">>, <<"'", "\"">>, <<"x">>, <<"\"", "x">>, <<"x", "'">>}}

SampleInputs ==
  {[r |-> r, c |-> c] : r \in {EmptyRecord, FullRecord} \cup QuoteRecords,
                        c \in {NoCache, SomeCache}}

\* Records for the extractors: one group of fields varies, the rest is absent.
SumRecords ==
  {Rec(i, EmptyFn) :
     i \in PartialFns({F("FL_FILE_NUMRRECVBYTES_INT"),
                       F("FL_NETW_NUMRRECVBYTES_INT")}, IntSamples)}

JoinRecords ==
  {Rec(EmptyFn, s) :
     s \in PartialFns({F("PROC_EXE_STR"), F("PROC_EXEARGS_STR")},
                      StringsUpTo({"x", " "}, MaxStrLen))}

PathRecords ==
  {Rec(EmptyFn, (F("PROC_EXE_STR") :> p) @@ (F("FILE_PATH_STR") :> p)) :
     p \in StringsUpTo({"/", "a", "."}, MaxStrLen + 1)}

NetRecords ==
  {Rec(i, EmptyFn) :
     i \in PartialFns({F("FL_NETW_PROTO_INT")}, IntSamples \cup {6})
           \cup PartialFns({F("FL_NETW_SPORT_INT"), F("FL_NETW_DPORT_INT")},
                           {0, 1, -1})
           \cup PartialFns({F("FL_NETW_SIP_INT"), F("FL_NETW_DIP_INT")},
                           {0, 1, MinInt})}

TypeRecords ==
  {Rec(t @@ v, EmptyFn) :
     t \in PartialFns({F("SF_REC_TYPE")}, (-1)..MaxInt),
     v \in PartialFns({F("RET_INT")}, {-1, 0, 3})
           \cup PartialFns({F("FL_FILE_ENDTS_INT"), F("FL_NETW_ENDTS_INT")}, {2, 4})}

OidRecords ==
  {Rec(i, EmptyFn) :
     i \in PartialFns({F("PROC_OID_HPID_INT"), F("PROC_OID_CREATETS_INT")},
                      {0, 1})}

\* Lists of one to MaxAttrs fields for the variadic factories.
AttrLists(fields) == UNION {[1..n -> fields] : n \in 1..MaxAttrs}

SumLists == AttrLists({"FL_FILE_NUMRRECVBYTES_INT", "FL_NETW_NUMRRECVBYTES_INT"})

JoinLists == AttrLists({"PROC_EXE_STR", "PROC_EXEARGS_STR"})

ExtractInputs ==
  {[r |-> r, c |-> NoCache] :
     r \in SumRecords \cup JoinRecords \cup PathRecords \cup NetRecords
           \cup TypeRecords}
  \cup {[r |-> r, c |-> c] : r \in OidRecords, c \in {NoCache, SomeCache}}

\* Path fields for the link-path extractor.
LinkAlphabet == {"a", "-", ">", " ", "/"}

LinkInputs ==
  {[r |-> Rec(EmptyFn, (F("FILE_PATH_STR") :> p)), c |-> NoCache] :
     p \in StringsUpTo(LinkAlphabet, MaxPathLen)}

\* Concurrent workers.
Workers == 1..NumWorkers

ConcNames ==
  {K_SF_TS, K_SF_PROC_EXE, K_SF_PROC_APID, K_SF_PROC_ENTRY, <<"-", "1">>,
   <<"\"", "x">>}

ConcInputs ==
  {[r |-> r, c |-> c] : r \in {EmptyRecord, FullRecord}, c \in {NoCache, SomeCache}}

\* Registries for the initialization of the package: every registry of up to
\* MaxKeys of these names (the literal of the source is too large to range
\* over in every order).
FieldsUniverse ==
  [k \in {<<"a">>, <<"a", ".", "b", ".", "c">>} |-> mapNa(k)]
  @@ [k \in {K_SF_TS, K_SF_RET, K_SF_PROC_PID, K_SF_PROC_NAME, K_SF_NET_IP,
             EXT_PROC_IMAGE_STR} |-> Mapper[k]]

RegistryLiterals ==
  {[k \in K |-> FieldsUniverse[k]] :
     K \in {S \in SUBSET DOMAIN FieldsUniverse :
              Cardinality(S) >= 1 /\ Cardinality(S) <= MaxKeys}}

(***************************************************************************)
(* State                                                                   *)
(*   Mappers  Mapper.Mappers, the registry                                 *)
(*   Fields   the package variable Fields                                  *)
(*   inited   the package variables initialized so far                     *)
(*   rec      the record being resolved                                    *)
(*   cache    the lineage cache                                            *)
(*   wk       per worker: the call it is in, what it holds, and the values  *)
(*            the extractor returned during the call (obs)                 *)
(***************************************************************************)
NoFn == Closure("none", "", <<>>)

NoValue == [k |-> "none", s |-> <<>>, i |-> 0, b |-> FALSE]

Idle ==
  [pc |-> "idle", op |-> "none", attr |-> <<>>, fn |-> NoFn, res |-> NoValue,
   obs |-> <<>>]

Built == inited = {"Fields", "Mapper"}

\* Fields as computed from the registry of the source.
MapperFields == getFields(SomeOrder(DOMAIN Mapper))

\* The state once the package is initialized.
Running(in) ==
  /\ Mappers = Mapper
  /\ Fields = MapperFields
  /\ inited = {"Fields", "Mapper"}
  /\ rec = in.r
  /\ cache = in.c
  /\ wk = [w \in Workers |-> Idle]

\* Map keeping the identity extractor it makes for a missing name in the
\* registry.
CallMapMemo(w, names) ==
  /\ Built
  /\ wk[w].pc = "idle"
  /\ \E attr \in names :
       /\ wk' = [wk EXCEPT ![w] = [pc |-> "bound", op |-> "Map", attr |-> attr,
                                   fn |-> Map(Mappers, attr), res |-> NoValue, obs |-> <<>>]]
       /\ Mappers' = IF attr \in DOMAIN Mappers THEN Mappers
                     ELSE Mappers @@ (attr :> Identity(attr))
  /\ UNCHANGED <<Fields, inited, rec, cache>>

\* m.Map(attr), for a name of names: the caller holds the FieldMap.
CallMap(w, names) ==
  /\ Built
  /\ wk[w].pc = "idle"
  /\ \E attr \in names :
       wk' = [wk EXCEPT ![w] = [pc |-> "bound", op |-> "Map", attr |-> attr,
                                fn |-> Map(Mappers, attr), res |-> NoValue, obs |-> <<>>]]
  /\ UNCHANGED <<Mappers, Fields, inited, rec, cache>>

\* m.MapInt(attr): the caller holds the IntFieldMap, which captured attr.
CallMapInt(w, names) ==
  /\ Built
  /\ wk[w].pc = "idle"
  /\ \E attr \in names :
       wk' = [wk EXCEPT ![w] = [pc |-> "bound", op |-> "MapInt", attr |-> attr,
                                fn |-> NoFn, res |-> NoValue, obs |-> <<>>]]
  /\ UNCHANGED <<Mappers, Fields, inited, rec, cache>>

\* m.MapStr(attr): the caller holds the StrFieldMap, which captured attr.
CallMapStr(w, names) ==
  /\ Built
  /\ wk[w].pc = "idle"
  /\ \E attr \in names :
       wk' = [wk EXCEPT ![w] = [pc |-> "bound", op |-> "MapStr", attr |-> attr,
                                fn |-> NoFn, res |-> NoValue, obs |-> <<>>]]
  /\ UNCHANGED <<Mappers, Fields, inited, rec, cache>>

\* mapSum(src, attrs...), for one of the given lists of fields: the caller
\* holds the FieldMap.
CallMapSum(w, lists) ==
  /\ Built
  /\ wk[w].pc = "idle"
  /\ \E attrs \in lists :
       wk' = [wk EXCEPT ![w] = [pc |-> "bound", op |-> "mapSum", attr |-> <<>>,
                                fn |-> mapSum("SYSFLOW_SRC", attrs),
                                res |-> NoValue, obs |-> <<>>]]
  /\ UNCHANGED <<Mappers, Fields, inited, rec, cache>>

\* mapJoin(src, attrs...), for one of the given lists of fields: the caller
\* holds the FieldMap.
CallMapJoin(w, lists) ==
  /\ Built
  /\ wk[w].pc = "idle"
  /\ \E attrs \in lists :
       wk' = [wk EXCEPT ![w] = [pc |-> "bound", op |-> "mapJoin", attr |-> <<>>,
                                fn |-> mapJoin("SYSFLOW_SRC", attrs),
                                res |-> NoValue, obs |-> <<>>]]
  /\ UNCHANGED <<Mappers, Fields, inited, rec, cache>>

\* The caller applies the FieldMap to the record.
InvokeFieldMap(w) ==
  /\ wk[w].pc = "bound" /\ wk[w].fn # NoFn
  /\ wk' = [wk EXCEPT ![w].pc = "done",
                      ![w].res = Invoke(wk[w].fn, rec, cache)]
  /\ UNCHANGED <<Mappers, Fields, inited, rec, cache>>

\* The caller applies the IntFieldMap to the record.
InvokeIntFieldMap(w) ==
  /\ wk[w].pc = "bound" /\ wk[w].op = "MapInt"
  /\ wk' = [wk EXCEPT ![w].pc = "done",
                      ![w].res = IntVal(MapIntFn(Mappers, wk[w].attr, rec, cache))]
  /\ UNCHANGED <<Mappers, Fields, inited, rec, cache>>

\* The caller applies the StrFieldMap to the record.
InvokeStrFieldMap(w) ==
  /\ wk[w].pc = "bound" /\ wk[w].op = "MapStr"
  /\ wk' = [wk EXCEPT ![w].pc = "done",
                      ![w].res = StrVal(MapStrFn(Mappers, wk[w].attr, rec, cache))]
  /\ UNCHANGED <<Mappers, Fields, inited, rec, cache>>

\* The StrFieldMap, one invocation of the extractor at a time.  First the
\* type assertion to string.
MapStrString(w) ==
  /\ wk[w].pc = "bound" /\ wk[w].op = "MapStr"
  /\ LET v == Invoke(Map(Mappers, wk[w].attr), rec, cache)
     IN  wk' = [wk EXCEPT ![w].obs = Append(@, v),
                          ![w].pc = IF v.k = "string" THEN "done" ELSE "int64",
                          ![w].res = IF v.k = "string"
                                       THEN StrVal(trimBoundingQuotes(v.s))
                                       ELSE NoValue]
  /\ UNCHANGED <<Mappers, Fields, inited, rec, cache>>

\* The type assertion to int64 left out: the call goes on to the next one.
MapStrInt64Skipped(w) ==
  /\ wk[w].pc = "int64"
  /\ wk' = [wk EXCEPT ![w].pc = "bool"]
  /\ UNCHANGED <<Mappers, Fields, inited, rec, cache>>

\* Then the type assertion to int64, of a new invocation.
MapStrInt64(w) ==
  /\ wk[w].pc = "int64"
  /\ LET v == Invoke(Map(Mappers, wk[w].attr), rec, cache)
     IN  wk' = [wk EXCEPT ![w].obs = Append(@, v),
                          ![w].pc = IF v.k = "int64" THEN "done" ELSE "bool",
                          ![w].res = IF v.k = "int64"
                                       THEN StrVal(FormatInt(v.i))
                                       ELSE NoValue]
  /\ UNCHANGED <<Mappers, Fields, inited, rec, cache>>

\* Then the type assertion to bool, of a new invocation, and the zero value
\* if that fails too.
MapStrBool(w) ==
  /\ wk[w].pc = "bool"
  /\ LET v == Invoke(Map(Mappers, wk[w].attr), rec, cache)
     IN  wk' = [wk EXCEPT ![w].obs = Append(@, v),
                          ![w].pc = "done",
                          ![w].res = IF v.k = "bool"
                                       THEN StrVal(FormatBool(v.b))
                                       ELSE ZerosString]
  /\ UNCHANGED <<Mappers, Fields, inited, rec, cache>>

\* The ingestion pipeline populates, changes or drops the lineage of an
\* object id.
PopulateCache ==
  /\ Built
  /\ \E c \in Caches : c # cache /\ cache' = c
  /\ UNCHANGED <<Mappers, Fields, inited, rec, wk>>

\* The caller drops the result and is free for the next resolution.
Release(w) ==
  /\ wk[w].pc = "done"
  /\ wk' = [wk EXCEPT ![w] = Idle]
  /\ UNCHANGED <<Mappers, Fields, inited, rec, cache>>

\* var Mapper = FieldMapper{...}
InitMapperVar ==
  /\ NextToInit(inited) = "Mapper"
  /\ \E lit \in RegistryLiterals : Mappers' = lit
  /\ inited' = inited \cup {"Mapper"}
  /\ UNCHANGED <<Fields, rec, cache, wk>>

\* var Fields = getFields()
InitFieldsVar ==
  /\ NextToInit(inited) = "Fields"
  /\ \E order \in RangeOrders(DOMAIN Mappers) : Fields' = getFields(order)
  /\ inited' = inited \cup {"Fields"}
  /\ UNCHANGED <<Mappers, rec, cache, wk>>

(***************************************************************************)
(* Specifications                                                          *)
(***************************************************************************)
\* One caller resolving any name on a few records.
Init == \E in \in SampleInputs : Running(in)

Next ==
  \/ CallMap(1, AttrNames)
  \/ CallMapInt(1, AttrNames)
  \/ CallMapStr(1, AttrNames)
  \/ InvokeFieldMap(1)
  \/ InvokeIntFieldMap(1)
  \/ InvokeStrFieldMap(1)
  \/ Release(1)

Spec == Init /\ [][Next]_vars

\* One caller resolving the registered names on every record of the
\* extractor groups.
InitExtract == \E in \in ExtractInputs : Running(in)

NextExtract ==
  \/ CallMap(1, RegKeys)
  \/ CallMapInt(1, RegKeys)
  \/ CallMapStr(1, RegKeys)
  \/ CallMapSum(1, SumLists)
  \/ CallMapJoin(1, JoinLists)
  \/ InvokeFieldMap(1)
  \/ InvokeIntFieldMap(1)
  \/ InvokeStrFieldMap(1)
  \/ Release(1)

SpecExtract == InitExtract /\ [][NextExtract]_vars

\* One caller resolving the canonical path of every short path string.
InitLink == \E in \in LinkInputs : Running(in)

NextLink ==
  \/ CallMap(1, {K_SF_FILE_CANONICALPATH})
  \/ InvokeFieldMap(1)

SpecLink == InitLink /\ [][NextLink]_vars

\* Concurrent workers resolving on one record.
InitConc == \E in \in ConcInputs : Running(in)

NextConc ==
  \E w \in Workers :
    \/ CallMap(w, ConcNames)
    \/ CallMapInt(w, ConcNames)
    \/ CallMapStr(w, ConcNames)
    \/ InvokeFieldMap(w)
    \/ InvokeIntFieldMap(w)
    \/ InvokeStrFieldMap(w)
    \/ Release(w)

SpecConc == InitConc /\ [][NextConc]_vars

\* One caller resolving strings step by step while the ingestion pipeline
\* changes the lineage cache.
RaceNames == ConcNames \cup {K_SF_PROC_ANAME}

InitRace == \E in \in ConcInputs : Running(in)

NextRace ==
  \/ CallMapStr(1, RaceNames)
  \/ MapStrString(1)
  \/ MapStrInt64(1)
  \/ MapStrBool(1)
  \/ Release(1)
  \/ PopulateCache

SpecRace == InitRace /\ [][NextRace]_vars

\* The initialization of the package's variables.
InitPkg ==
  /\ Mappers = EmptyFn
  /\ Fields = <<>>
  /\ inited = {}
  /\ rec = EmptyRecord
  /\ cache = NoCache
  /\ wk = [w \in Workers |-> Idle]

NextPkg == InitMapperVar \/ InitFieldsVar

SpecFields == InitPkg /\ [][NextPkg]_vars

(***************************************************************************)
(* Properties                                                              *)
(***************************************************************************)
Done(w, op) == wk[w].pc = "done" /\ wk[w].op = op

\* The value the extractor of the worker's name yields on the record.
Extracted(w) == Invoke(Map(Mappers, wk[w].attr), rec, cache)

\* C1: Map of a name that is no key of the registry yields a FieldMap that
\* returns the name itself, as a string and unchanged; Map of a key yields
\* the registered extractor, never the identity extractor.
PassThrough ==
  \A w \in Workers :
    /\ (wk[w].op = "Map" /\ wk[w].pc \in {"bound", "done"}
          /\ wk[w].attr \in DOMAIN Mappers)
         => (wk[w].fn = Mappers[wk[w].attr] /\ wk[w].fn.f # "identity")
    /\ (Done(w, "Map") /\ wk[w].attr \notin DOMAIN Mappers)
         => wk[w].res = StrVal(wk[w].attr)

\* A quoted numeric name that is no key has been resolved with Map.
PassThroughWitness ==
  \E w \in Workers :
    /\ Done(w, "Map")
    /\ wk[w].attr = <<"\"", "1", "'">>
    /\ wk[w].attr \notin DOMAIN Mappers
    /\ rec = FullRecord

\* s is a base-10 literal of the integer n: an optional sign, then digits.
Denotes(s, n) ==
  \E sg \in {<<>>, <<"+">>, <<"-">>}, z \in 0..Len(s) :
    /\ s = sg \o [i \in 1..z |-> "0"] \o FormatUint(Abs(n))
    /\ n < 0 => sg = <<"-">>
    /\ n > 0 => sg # <<"-">>

\* C2: MapInt(name)(r) is the extractor's value when that is an integer;
\* otherwise the integer the name is a base-10 literal of, when it is one
\* that fits the integer width; otherwise 0.
IntCoercion ==
  \A w \in Workers :
    Done(w, "MapInt") =>
      LET v == Extracted(w)
          a == wk[w].attr
      IN  /\ wk[w].res.k = "int64"
          /\ v.k = "int64" => wk[w].res.i = v.i
          /\ v.k # "int64" =>
               /\ \A n \in MinInt..MaxInt : Denotes(a, n) => wk[w].res.i = n
               /\ (\A n \in MinInt..MaxInt : ~Denotes(a, n)) => wk[w].res.i = 0

\* MapInt has resolved a signed literal name that is no key.
IntCoercionWitness ==
  \E w \in Workers :
    /\ Done(w, "MapInt")
    /\ wk[w].attr = <<"-", "0", "1">>
    /\ wk[w].attr \notin DOMAIN Mappers
    /\ wk[w].res = IntVal(-1)

\* out is s without one leading quote, if s starts with one, and without
\* one trailing quote, if what is left ends with one.
IsTrimOf(out, s) ==
  \E a, b \in 0..1 :
    /\ a = 1 <=> (Len(s) >= 1 /\ IsQuote(s[1]))
    /\ b = 1 <=> (Len(s) - a >= 1 /\ IsQuote(s[Len(s)]))
    /\ out = SubSeq(s, 1 + a, Len(s) - b)

\* C3: MapStr(name)(r) is the resolved string less at most one leading and
\* one trailing quote (tested independently), the decimal text of a resolved
\* integer, "true" or "false" for a resolved boolean, else the empty string.
StrCoercion ==
  \A w \in Workers :
    Done(w, "MapStr") =>
      LET v == Extracted(w)
      IN  /\ wk[w].res.k = "string"
          /\ v.k = "string" => IsTrimOf(wk[w].res.s, v.s)
          /\ v.k = "int64" => wk[w].res.s = FormatInt(v.i)
          /\ v.k = "bool" =>
               wk[w].res.s = IF v.b THEN <<"t", "r", "u", "e">>
                                    ELSE <<"f", "a", "l", "s", "e">>
          /\ v.k \notin {"string", "int64", "bool"} => wk[w].res.s = <<>>

\* MapStr has resolved a string with two different quotes at its ends.
StrCoercionWitness ==
  \E w \in Workers :
    /\ Done(w, "MapStr")
    /\ wk[w].attr = K_SF_PROC_EXE
    /\ rec = FullRecord
    /\ wk[w].res = StrVal(<<"/", "x">>)

\* The number of dot-separated segments of a name.
Segments(s) == Cardinality({i \in DOMAIN s : s[i] = "."}) + 1

\* x is lexicographically smaller than y.
LexSmaller(x, y) ==
  \E p \in 1..Len(y) :
    /\ \A i \in 1..(p - 1) : i <= Len(x) /\ x[i] = y[i]
    /\ p > Len(x) \/ Ord(x[p]) < Ord(y[p])

\* C4: once Fields is initialized the registry is populated, and Fields holds
\* every key of the registry exactly once and nothing else, each entry
\* before the next by (number of segments, then lexicographic order); the
\* names ts, proc.pid, proc.name, a come out as a, ts, proc.name, proc.pid.
FieldsEnumeration ==
  "Fields" \in inited =>
    /\ "Mapper" \in inited
    /\ Fields # <<>>
    /\ Len(Fields) = Cardinality(DOMAIN Mappers)
    /\ {Fields[i] : i \in DOMAIN Fields} = DOMAIN Mappers
    /\ \A i \in 1..(Len(Fields) - 1) :
         LET x == Fields[i]
             y == Fields[i + 1]
         IN  \/ Segments(x) < Segments(y)
             \/ Segments(x) = Segments(y) /\ LexSmaller(x, y)
    /\ DOMAIN Mappers = {K_SF_TS, K_SF_PROC_PID, K_SF_PROC_NAME, <<"a">>}
         => Fields = <<<<"a">>, K_SF_TS, K_SF_PROC_NAME, K_SF_PROC_PID>>

\* Fields has been computed for the registry of the names ts, proc.pid,
\* proc.name and a.
FieldsEnumerationWitness ==
  /\ inited = {"Fields", "Mapper"}
  /\ DOMAIN Mappers = {K_SF_TS, K_SF_PROC_PID, K_SF_PROC_NAME, <<"a">>}
  /\ Len(Fields) = 4

AllIn(s, from, to, P(_)) == \A k \in from..to : P(s[k])

\* The places <<t, u>> of the target path in s, when s is of the form
\* <hex>-><hex> <targetPath>: two non-empty hexadecimal numbers around "->",
\* at least one blank, and the target path s[t..u], which starts and ends
\* with a character that is no blank.  Blanks before either number and
\* around the target path do not count.
LinkTargets(s) ==
  LET n == Len(s) IN
  {tu \in (1..n) \X (1..n) :
     /\ tu[1] <= tu[2]
     /\ ~IsSpace(s[tu[1]]) /\ ~IsSpace(s[tu[2]])
     /\ AllIn(s, tu[2] + 1, n, IsSpace)
     /\ \E p0 \in 0..n :
          /\ AllIn(s, 1, p0, IsSpace)
          /\ \E p1 \in (p0 + 1)..n :
               /\ AllIn(s, p0 + 1, p1, IsHex)
               /\ p1 + 2 <= n /\ s[p1 + 1] = "-" /\ s[p1 + 2] = ">"
               /\ \E p2 \in (p1 + 2)..n :
                    /\ AllIn(s, p1 + 3, p2, IsSpace)
                    /\ \E p3 \in (p2 + 1)..n :
                         /\ AllIn(s, p2 + 1, p3, IsHex)
                         /\ p3 < tu[1] - 1
                         /\ AllIn(s, p3 + 1, tu[1] - 1, IsSpace)}

\* C5: the link-path extractor returns the whole target path of a value of
\* the form <hex>-><hex> <targetPath>, and any other value unchanged.
LinkPathWhole ==
  \A w \in Workers :
    (wk[w].pc = "done" /\ wk[w].fn.f = "mapLinkPath") =>
      LET s == GetStr(rec, wk[w].fn.attrs[1], wk[w].fn.src)
      IN  /\ \A tu \in LinkTargets(s) : wk[w].res = StrVal(SubSeq(s, tu[1], tu[2]))
          /\ LinkTargets(s) = {} => wk[w].res = StrVal(s)

\* C10: the protocol-name attribute resolves to a string, which differs from
\* the integer the plain protocol attribute resolves to on the same record.
ProtoNameSymbolic ==
  \A w \in Workers :
    (Done(w, "Map") /\ wk[w].attr = K_SF_NET_PROTONAME) =>
      /\ wk[w].res.k = "string"
      /\ wk[w].res # Invoke(Map(Mappers, K_SF_NET_PROTO), rec, cache)

\* The fields of the record the closure fm reads.
Reads(fm) ==
  CASE fm.f = "mapRet" -> {"SF_REC_TYPE", "RET_INT"}
    [] fm.f = "mapEndTs" -> {"SF_REC_TYPE", "FL_FILE_ENDTS_INT", "FL_NETW_ENDTS_INT"}
    [] fm.f = "mapCachedValue" -> {"PROC_OID_CREATETS_INT", "PROC_OID_HPID_INT"}
    [] OTHER -> {fm.attrs[i] : i \in DOMAIN fm.attrs}

\* The record holds none of the fields fm reads.
Absent(fm, r) ==
  \A a \in Reads(fm) : <<fm.src, a>> \notin (DOMAIN r.ints \cup DOMAIN r.strs)

\* v is the zero value of its kind.
IsTypedZero(v) ==
  \/ v = ZerosString
  \/ v = ZerosInt64
  \/ v = BoolVal(FALSE)

\* A registered extractor has been applied to a record that holds none of
\* its fields.
ResolvedAbsent(w) ==
  /\ Done(w, "Map")
  /\ wk[w].attr \in DOMAIN Mappers
  /\ Absent(wk[w].fn, rec)

\* C6 as claimed: every registered extractor applied to a record in which
\* its fields are absent returns the typed zero value of its kind: the empty
\* string, 0 or false.
ZeroValueTotality ==
  \A w \in Workers : ResolvedAbsent(w) => IsTypedZero(wk[w].res)

\* n copies of the string s, joined by sep.
Repeated(n, s, sep) ==
  IF n = 0 THEN <<>>
  ELSE s \o [i \in 1..((n - 1) * (Len(sep) + Len(s))) |->
               (sep \o s)[((i - 1) % (Len(sep) + Len(s))) + 1]]

\* C6 as amended: every registered extractor applied to a record in which
\* its fields are absent returns a value: the typed zero value for the direct
\* copies, the sum, the return code, the end timestamp, the entry flag, the
\* link path, the protocol and the cached lookups; "." for the name and the
\* directory; the n-1 separators alone for a join of n fields; "0" per port
\* and "0.0.0.0" per address, joined by ","; a 16-digit hexadecimal string
\* for the object identifier.
ZeroValueByFamily ==
  \A w \in Workers :
    ResolvedAbsent(w) =>
      LET f == wk[w].fn.f
          n == Len(wk[w].fn.attrs)
          v == wk[w].res
      IN  /\ f \in {"mapName", "mapDir"} => v = StrVal(<<".">>)
          /\ f = "mapJoin" => v = StrVal([i \in 1..(n - 1) |-> " "])
          /\ f = "mapPort" => v = StrVal(Repeated(n, <<"0">>, <<",">>))
          /\ f = "mapIP" =>
               v = StrVal(Repeated(n, <<"0", ".", "0", ".", "0", ".", "0">>, <<",">>))
          /\ f = "mapOID" =>
               /\ v.k = "string"
               /\ Len(v.s) = 16
               /\ \A i \in 1..16 : IsHex(v.s[i])
          /\ f \in {"mapStr", "mapLinkPath"} => v = ZerosString
          /\ f \in {"mapInt", "mapSum", "mapRet", "mapEndTs", "mapProto"}
               => v = ZerosInt64
          /\ f = "mapEntry" => v = BoolVal(FALSE)
          /\ f = "mapCachedValue" => IsTypedZero(v)

\* The name extractor has been applied to a record without the executable
\* path and has returned ".".
ZeroValueWitness ==
  \E w \in Workers :
    /\ ResolvedAbsent(w)
    /\ wk[w].attr = K_SF_PROC_NAME
    /\ wk[w].res = StrVal(<<".">>)

\* The fields the closure of the worker has read, in argument order.
IntOperands(w) ==
  [i \in DOMAIN wk[w].fn.attrs |-> GetInt(rec, wk[w].fn.attrs[i], wk[w].fn.src)]

StrOperands(w) ==
  [i \in DOMAIN wk[w].fn.attrs |-> GetStr(rec, wk[w].fn.attrs[i], wk[w].fn.src)]

\* The sum of the integers of xs, unbounded.
RECURSIVE Total(_)
Total(xs) == IF xs = <<>> THEN 0 ELSE xs[1] + Total(Tail(xs))

\* The lengths of the strings of xs, added.
RECURSIVE TotalLen(_)
TotalLen(xs) == IF xs = <<>> THEN 0 ELSE Len(xs[1]) + TotalLen(Tail(xs))

\* C7: mapSum(src, a, b)(r) is GetInt(a, src) + GetInt(b, src) wrapped to the
\* width of the signed integer, for every value of the fields; with n fields
\* it is the wrapped sum of all n; the result is of integer kind.
SumExtractor ==
  \A w \in Workers :
    (wk[w].pc = "done" /\ wk[w].fn.f = "mapSum") =>
      LET xs == IntOperands(w)
      IN  /\ wk[w].res.k = "int64"
          /\ wk[w].res.i \in MinInt..MaxInt
          /\ (wk[w].res.i - Total(xs)) % (MaxUint + 1) = 0
          /\ Len(xs) = 2 => wk[w].res = IntVal(Wrap(xs[1] + xs[2]))

\* The sum of the largest integer and 1 has been taken and has wrapped to
\* the smallest integer.
SumExtractorWitness ==
  \E w \in Workers :
    /\ wk[w].pc = "done" /\ wk[w].fn.f = "mapSum"
    /\ IntOperands(w) = <<MaxInt, 1>>
    /\ wk[w].res = IntVal(MinInt)

\* C8: mapJoin(src, a, b)(r) is GetStr(a), one space, GetStr(b), in argument
\* order, empty operands included; with n fields the operands are separated
\* by exactly n-1 spaces.
JoinExtractor ==
  \A w \in Workers :
    (wk[w].pc = "done" /\ wk[w].fn.f = "mapJoin") =>
      LET xs == StrOperands(w)
          n  == Len(xs)
      IN  /\ wk[w].res.k = "string"
          /\ n = 1 => wk[w].res.s = xs[1]
          /\ n = 2 => wk[w].res.s = xs[1] \o <<" ">> \o xs[2]
          /\ n = 3 => wk[w].res.s = xs[1] \o <<" ">> \o xs[2] \o <<" ">> \o xs[3]
          /\ wk[w].res.s = Join(xs, <<" ">>)
          /\ Len(wk[w].res.s) = TotalLen(xs) + (n - 1)

\* The command line of a record with an empty executable path and the
\* arguments "x" has been resolved: the separator is there.
JoinExtractorWitness ==
  \E w \in Workers :
    /\ wk[w].pc = "done"
    /\ wk[w].fn = Mapper[K_SF_PROC_CMDLINE]
    /\ StrOperands(w) = <<<<>>, <<"x">>>>
    /\ wk[w].res = StrVal(<<" ", "x">>)

\* What the resolution the worker asked for yields on the record, computed
\* from the registry as constructed.
Alone(w) ==
  CASE wk[w].op = "MapInt" -> IntVal(MapIntFn(Mapper, wk[w].attr, rec, cache))
    [] wk[w].op = "MapStr" -> StrVal(MapStrFn(Mapper, wk[w].attr, rec, cache))
    [] OTHER -> Invoke(wk[w].fn, rec, cache)

\* C9: no step of any worker changes the registry, Fields or the record, and
\* a resolution running among others yields what it yields alone.
NoSharedMutation ==
  [][/\ Mappers' = Mappers
     /\ DOMAIN Mappers' = DOMAIN Mapper
     /\ Fields' = Fields
     /\ rec' = rec
     /\ \A w \in Workers :
          (wk[w].pc = "bound" /\ wk'[w].pc = "done") => wk'[w].res = Alone(w)]_vars

\* Two workers have finished different resolutions of the same record, one
\* of them of a name the registry does not hold.
NoSharedMutationWitness ==
  \E v, w \in Workers :
    /\ v # w
    /\ Done(v, "Map") /\ wk[v].attr \notin DOMAIN Mapper
    /\ Done(w, "MapStr") /\ wk[w].attr = K_SF_PROC_EXE
    /\ rec = FullRecord

\* The record type, the return code and the end timestamps the record holds.
RecType == GetInt(rec, "SF_REC_TYPE", "SYSFLOW_SRC")

RetField == GetInt(rec, "RET_INT", "SYSFLOW_SRC")

FileEndTs == GetInt(rec, "FL_FILE_ENDTS_INT", "SYSFLOW_SRC")

NetwEndTs == GetInt(rec, "FL_NETW_ENDTS_INT", "SYSFLOW_SRC")

\* C11: the return-code extractor returns the return-code field for process
\* events and file events and 0 for every other record type, whatever the
\* field holds; the end-timestamp extractor returns the file-flow field for
\* file flows, the network-flow field for network flows and 0 otherwise.
TypeGating ==
  \A w \in Workers :
    /\ (wk[w].pc = "done" /\ wk[w].fn.f = "mapRet") =>
         /\ RecType = PROC_EVT => wk[w].res = IntVal(RetField)
         /\ RecType = FILE_EVT => wk[w].res = IntVal(RetField)
         /\ RecType \notin {PROC_EVT, FILE_EVT} => wk[w].res = IntVal(0)
    /\ (wk[w].pc = "done" /\ wk[w].fn.f = "mapEndTs") =>
         /\ RecType = FILE_FLOW => wk[w].res = IntVal(FileEndTs)
         /\ RecType = NET_FLOW => wk[w].res = IntVal(NetwEndTs)
         /\ RecType \notin {FILE_FLOW, NET_FLOW} => wk[w].res = IntVal(0)

\* The return code of a process event that holds the return code 3 has been
\* resolved, and is 3.
TypeGatingWitness ==
  \E w \in Workers :
    /\ wk[w].pc = "done" /\ wk[w].fn.f = "mapRet"
    /\ RecType = PROC_EVT /\ RetField = 3
    /\ wk[w].res = IntVal(3)

\* out is the string coercion of the value v.
Coerces(out, v) ==
  CASE v.k = "string" -> IsTrimOf(out, v.s)
    [] v.k = "int64" -> out = FormatInt(v.i)
    [] v.k = "bool" -> out = (IF v.b THEN <<"t", "r", "u", "e">>
                                     ELSE <<"f", "a", "l", "s", "e">>)
    [] OTHER -> out = <<>>

\* C12: whatever the ingestion pipeline does to the lineage cache between
\* the invocations MapStr makes of the extractor, the string MapStr returns
\* is the string coercion of one of the values the extractor returned during
\* the call; it is the empty string only when that is the coercion of one of
\* them.
SingleEvaluation ==
  \A w \in Workers :
    Done(w, "MapStr") =>
      /\ wk[w].res.k = "string"
      /\ \E i \in DOMAIN wk[w].obs : Coerces(wk[w].res.s, wk[w].obs[i])

\* MapStr of the cached ancestor pids has seen the lineage change between
\* its first and its second invocation of the extractor and has returned
\* the text of the second value.
SingleEvaluationWitness ==
  \E w \in Workers :
    /\ Done(w, "MapStr")
    /\ wk[w].attr = K_SF_PROC_APID
    /\ wk[w].obs = <<IntVal(1), IntVal(2)>>
    /\ wk[w].res = StrVal(<<"2">>)

====
